---- MODULE Spec2Model ----
(***************************************************************************)
(* Model of clean_encounterids.py: the identifier correctors, the joiner   *)
(* and the duplicate collapsers of the ICNARC-to-Philips linkage.          *)
(*                                                                         *)
(* A pandas DataFrame is a record [cols, rows]: cols is the set of column  *)
(* names, rows the sequence of rows, each row a function from cols to the  *)
(* cell values.  A function of the script is an operator from its inputs  *)
(* to a result [err, df]; err is "" when the function returns and the name *)
(* of the exception it raises otherwise.                                   *)
(***************************************************************************)
EXTENDS Integers, Sequences, FiniteSets, TLC

VARIABLES
    icnarc_cis_id_file,   \* frame read by pd.read_csv in clean_icnarc_cis_ids
    erroneous_ids,        \* sheet 'WW' of the issue list
    philips_extract,      \* frame read by pd.read_csv in clean_philips_encounterids
    encounter_id_issues,  \* sheet 'encounterId' of the issue list
    icnarc_numbers,       \* result of clean_icnarc_cis_ids
    data,                 \* result of clean_philips_encounterids
    merged,               \* result of join_icnarc_to_philips
    groups,               \* result of a collapser
    pc,                   \* position in the running script
    err,                  \* exception that ended the run, "" if none
    args                  \* keyword arguments of the last call

vars == <<icnarc_cis_id_file, erroneous_ids, philips_extract, encounter_id_issues,
          icnarc_numbers, data, merged, groups, pc, err, args>>

----------------------------------------------------------------------------
(* Values *)

\* numeric missing value, as read_csv / read_excel / a left merge produce it
NaN == 0 - 1
\* missing value of a text column
NaNStr == "nan"
\* the cardiac unit in WardWatcher ('Unit ID') and in Philips ('clinicalUnitId')
CardiacUnitWW == 14
CardiacUnitPhilips == 8

TextCols == {"gender", "error_type", "Explanation",
             "Readmission during this hospital stay"}
\* columns whose cells are the objects appended to new_column
ObjectCols == {"CIS Patient ID"}

\* what clean_icnarc_cis_ids appends to new_column: a scalar of the row, or
\* the Series selected from known_errors
Scalar(v) == [t |-> "scalar", v |-> v, s |-> <<>>]
SeriesObj(vals) == [t |-> "series", v |-> 0, s |-> vals]

IsNull(c, v) ==
    IF c \in TextCols THEN v = NaNStr
    ELSE IF c \in ObjectCols THEN v.t = "scalar" /\ v.v = NaN
    ELSE v = NaN

----------------------------------------------------------------------------
(* Frames *)

Frame(cols, rows) == [cols |-> cols, rows |-> rows]
EmptyFrame == Frame({}, <<>>)
Ok(df) == [err |-> "", df |-> df]
Raise(e) == [err |-> e, df |-> EmptyFrame]

Range(s) == {s[i] : i \in DOMAIN s}
SeqsUpTo(S, n) == UNION {[1..k -> S] : k \in 0..n}

RECURSIVE Concat(_)
Concat(ss) == IF ss = <<>> THEN <<>> ELSE Head(ss) \o Concat(Tail(ss))

\* df[mask]: the rows at the kept positions, in order
Keep(df, kept) ==
    LET F[i \in 0..Len(df.rows)] ==
            IF i = 0 THEN <<>>
            ELSE IF i \in kept THEN Append(F[i-1], df.rows[i]) ELSE F[i-1]
    IN  Frame(df.cols, F[Len(df.rows)])

\* df.rename(columns={old: new}); a name that is no column is ignored
Rename(df, old, new) ==
    IF old \notin df.cols THEN df
    ELSE LET cs == (df.cols \ {old}) \cup {new}
         IN  Frame(cs, [i \in DOMAIN df.rows |->
                          [c \in cs |-> IF c = new THEN df.rows[i][old]
                                        ELSE df.rows[i][c]]])

\* df.drop(names, axis=1) once the names are known to be columns
Drop(df, names) ==
    LET cs == df.cols \ names
    IN  Frame(cs, [i \in DOMAIN df.rows |-> [c \in cs |-> df.rows[i][c]]])

\* df[name] = values
Assign(df, name, values) ==
    LET cs == df.cols \cup {name}
    IN  Frame(cs, [i \in DOMAIN df.rows |->
                     [c \in cs |-> IF c = name THEN values[i] ELSE df.rows[i][c]]])

----------------------------------------------------------------------------
(* clean_icnarc_cis_ids *)

\* known_errors[known_errors['Unit ID']!=14] keeps the index labels read_excel
\* gave the rows: the 0-based positions in the sheet
KeptPositions(df, col, val) ==
    {p \in 1..Len(df.rows) : df.rows[p][col] # val}
IndexLabels(df, col, val) == {p - 1 : p \in KeptPositions(df, col, val)}

\* x in series: membership in the index labels of the Series
SeriesContains(labels, x) == x \in labels

\* known_errors.loc[known_errors['ICNARC Number']==n]['Corrected encID']
SelectCorrected(known_errors, n) ==
    LET sel == SelectSeq(known_errors.rows, LAMBDA e : e["ICNARC Number"] = n)
    IN  SeriesObj([i \in DOMAIN sel |-> sel[i]["Corrected encID"]])

clean_icnarc_cis_ids(file, sheet) ==
    IF ~ ({"Unit ID"} \subseteq file.cols) \/ ~ ({"Unit ID"} \subseteq sheet.cols)
    THEN Raise("KeyError")
    ELSE
    LET numbers == Rename(Keep(file, KeptPositions(file, "Unit ID", CardiacUnitWW)),
                          "CIS Patient ID", "CIS Patient ID Original")
        known_errors == Keep(sheet, KeptPositions(sheet, "Unit ID", CardiacUnitWW))
        labels == IndexLabels(sheet, "Unit ID", CardiacUnitWW)
        needed == {"ICNARC number", "CIS Patient ID Original"}
        new_column == [i \in DOMAIN numbers.rows |->
            IF SeriesContains(labels, numbers.rows[i]["ICNARC number"])
            THEN SelectCorrected(known_errors, numbers.rows[i]["ICNARC number"])
            ELSE Scalar(numbers.rows[i]["CIS Patient ID Original"])]
    IN  IF numbers.rows # <<>> /\
           (~ (needed \subseteq numbers.cols) \/
            ~ ({"ICNARC Number", "Corrected encID"} \subseteq known_errors.cols))
        THEN Raise("KeyError")
        ELSE Ok(Assign(numbers, "CIS Patient ID", new_column))

----------------------------------------------------------------------------
(* DataFrame.merge *)

\* the missing value a left merge puts in a column of the right frame
NullOf(c) == IF c \in TextCols THEN NaNStr
             ELSE IF c \in ObjectCols THEN Scalar(NaN) ELSE NaN

\* when a key of the left frame and a key of the right frame are the same key.
\* Two int64/float64 columns: equal values, and a missing key matches a missing
\* key.  An object column on the right: the cell is that scalar.
KeysMatch(dtype, a, b) ==
    IF dtype = "object" THEN b.t = "scalar" /\ b.v # NaN /\ b.v = a
    ELSE a = b

\* left.merge(right, how=how, on=on) once both frames have the column `on`;
\* dtype is the dtype of right[on].  The other columns the frames share get
\* the suffixes _x and _y.
Merge(left, right, how, on, dtype) ==
    LET shared == (left.cols \cap right.cols) \ {on}
        lname(c) == IF c \in shared THEN c \o "_x" ELSE c
        rname(c) == IF c \in shared THEN c \o "_y" ELSE c
        lcols == {lname(c) : c \in left.cols}
        rcols == {rname(c) : c \in right.cols \ {on}}
        lsrc(n) == IF n \in left.cols \ shared THEN n
                   ELSE CHOOSE c \in left.cols : lname(c) = n
        rsrc(n) == IF n \in right.cols \ shared THEN n
                   ELSE CHOOSE c \in right.cols \ {on} : rname(c) = n
        cs == lcols \cup rcols
        joined(l, r) == [n \in cs |-> IF n \in lcols THEN l[lsrc(n)] ELSE r[rsrc(n)]]
        alone(l) == [n \in cs |-> IF n \in lcols THEN l[lsrc(n)] ELSE NullOf(rsrc(n))]
        hits(l) == SelectSeq(right.rows, LAMBDA r : KeysMatch(dtype, l[on], r[on]))
        out(l) == IF hits(l) = <<>>
                  THEN (IF how = "left" THEN <<alone(l)>> ELSE <<>>)
                  ELSE [j \in DOMAIN hits(l) |-> joined(l, hits(l)[j])]
    IN  Frame(cs, Concat([i \in DOMAIN left.rows |-> out(left.rows[i])]))

----------------------------------------------------------------------------
(* clean_philips_encounterids *)

\* series.fillna(other) of two columns of one frame
FillNa(v, other) == IF v = NaN THEN other ELSE v

clean_philips_encounterids(extract, sheet, verbose, log_error_type) ==
    LET d1 == Rename(extract, "encounterId", "encounterId_CIS")
        known_errors == Keep(sheet, KeptPositions(sheet, "clinicalUnitId", CardiacUnitPhilips))
        d2 == Merge(d1, known_errors, "left", "encounterId_CIS", "int64")
        d3 == Rename(d2, "encounterId_CIS", "encounterId_original")
        d4 == Assign(d3, "encounterId_Adjusted",
                     [i \in DOMAIN d3.rows |->
                        FillNa(d3.rows[i]["encounterId_Adjusted"],
                               d3.rows[i]["encounterId_original"])])
        d5 == IF log_error_type
              THEN Assign(d4, "error_type",
                          [i \in DOMAIN d4.rows |->
                             IF d4.rows[i]["Explanation"] = NaNStr THEN "NA"
                             ELSE d4.rows[i]["Explanation"]])
              ELSE d4
        d6 == Rename(Drop(d5, {"clinicalUnitId", "Explanation"}),
                     "encounterId_Adjusted", "encounterId")
    IN  \* line 65: the column is read before line 75 creates it
        IF verbose /\ "encounterId_original" \notin d1.cols THEN Raise("KeyError")
        ELSE IF "clinicalUnitId" \notin sheet.cols THEN Raise("AttributeError")
        ELSE IF "encounterId_CIS" \notin d1.cols \/ "encounterId_CIS" \notin sheet.cols
             THEN Raise("KeyError")
        \* line 76: after line 75 two columns are named encounterId_original, and
        \* fillna is handed the frame of both
        ELSE IF "encounterId_original" \in d2.cols THEN Raise("TypeError")
        ELSE IF "encounterId_Adjusted" \notin d3.cols THEN Raise("KeyError")
        ELSE IF log_error_type /\ "Explanation" \notin d4.cols THEN Raise("KeyError")
        ELSE IF ~ ({"clinicalUnitId", "Explanation"} \subseteq d5.cols) THEN Raise("KeyError")
        \* line 82: astype(int) of a column that holds a missing value
        ELSE IF \E i \in DOMAIN d6.rows : d6.rows[i]["encounterId"] = NaN
             THEN Raise("ValueError")
        ELSE Ok(d6)

----------------------------------------------------------------------------
(* join_icnarc_to_philips *)

\* the body of join_icnarc_to_philips with the merge's `how` as given; the
\* result is [err, df, icnarc]: line 89 adds a column to the caller's frame
JoinHow(philips_data, numbers, how) ==
    IF "CIS Patient ID" \notin numbers.cols
    THEN [err |-> "KeyError", df |-> EmptyFrame, icnarc |-> numbers]
    ELSE
    LET inum == Assign(numbers, "encounterId",
                       [i \in DOMAIN numbers.rows |-> numbers.rows[i]["CIS Patient ID"]])
        m == Merge(philips_data, inum, how, "encounterId", "object")
    IN  IF "encounterId" \notin philips_data.cols
        THEN [err |-> "KeyError", df |-> EmptyFrame, icnarc |-> inum]
        \* a Series in the key column cannot be hashed by the merge
        ELSE IF \E i \in DOMAIN inum.rows : inum.rows[i]["encounterId"].t = "series"
        THEN [err |-> "TypeError", df |-> EmptyFrame, icnarc |-> inum]
        ELSE IF ~ ({"CIS Patient ID", "Key"} \subseteq m.cols)
        THEN [err |-> "KeyError", df |-> EmptyFrame, icnarc |-> inum]
        ELSE [err |-> "", df |-> Drop(m, {"CIS Patient ID", "Key"}), icnarc |-> inum]

\* the joiner with how='left': rows of the Philips frame without a match stay
join_left(philips_data, numbers) == JoinHow(philips_data, numbers, "left")

\* merge's default is how='inner'
join_icnarc_to_philips(philips_data, numbers) == JoinHow(philips_data, numbers, "inner")

----------------------------------------------------------------------------
(* validation *)

\* the columns validation reads, with view_non_unique_ids=False; it returns
\* nothing and changes nothing
validation(numbers, philips_data, merged_data) ==
    IF /\ "CIS Patient ID" \in numbers.cols
       /\ "CIS Patient ID" \in philips_data.cols
       /\ "CIS Patient ID" \in merged_data.cols
    THEN "" ELSE "KeyError"

----------------------------------------------------------------------------
(* groupby(...).agg(...) *)

Min(S) == CHOOSE m \in S : \A x \in S : m <= x
Max(S) == CHOOSE m \in S : \A x \in S : m >= x

RECURSIVE Sorted(_)
Sorted(S) == IF S = {} THEN <<>> ELSE <<Min(S)>> \o Sorted(S \ {Min(S)})

RECURSIVE SumSeq(_)
SumSeq(xs) == IF xs = <<>> THEN 0 ELSE Head(xs) + SumSeq(Tail(xs))

_get_err(x) ==
    LET e == SelectSeq(x, LAMBDA v : v # "NA")
    IN  IF Len(e) = 0 THEN "NA" ELSE e[1]

\* one aggregation of the values xs of column c within a group.  sum_empty is
\* what the installed pandas returns for the sum of no values (0, or NaN in
\* the releases before 0.22).
Aggregate(fn, c, xs, sum_empty) ==
    LET present == SelectSeq(xs, LAMBDA v : ~ IsNull(c, v))
    IN  CASE fn = "count" -> Len(present)
          [] fn = "list"  -> xs
          [] fn = "min"   -> IF present = <<>> THEN NaN ELSE Min(Range(present))
          [] fn = "max"   -> IF present = <<>> THEN NaN ELSE Max(Range(present))
          [] fn = "first" -> IF present = <<>> THEN NullOf(c) ELSE present[1]
          [] fn = "last"  -> IF present = <<>> THEN NullOf(c) ELSE present[Len(present)]
          [] fn = "sum"   -> IF present = <<>> THEN sum_empty ELSE SumSeq(present)
          [] fn = "_get_err" -> _get_err(xs)

\* the grouping key of a row: the cell, or the scalar of an object cell
KeyValue(by, row) == IF by \in ObjectCols THEN row[by].v ELSE row[by]

\* groupby with dropna=False: a missing key is a group of its own
GroupKeysWithNull(df, by) ==
    Sorted({KeyValue(by, df.rows[i]) : i \in DOMAIN df.rows})

\* the keys of the groups: the distinct keys that are not missing, ascending
\* (sort=True)
GroupKeys(df, by) ==
    Sorted({KeyValue(by, df.rows[i]) : i \in DOMAIN df.rows} \ {NaN})

\* df.groupby([by], as_index=False).agg(spec): spec is a set of <<column,
\* function>>; flat says whether the two-level column names were joined by '_'.
\* Groups come sorted by key and rows with a missing key belong to no group.
GroupByAgg(df, by, spec, flat, sum_empty) ==
    LET keys == GroupKeys(df, by)
        group(k) == SelectSeq(df.rows, LAMBDA r : KeyValue(by, r) = k)
        name(p) == IF flat THEN p[1] \o "_" \o p[2] ELSE p[1]
        keyname == IF flat THEN by \o "_" ELSE by
        cs == {keyname} \cup {name(p) : p \in spec}
        src(n) == CHOOSE p \in spec : name(p) = n
        column(g, c) == [j \in DOMAIN g |-> g[j][c]]
        outrow(k) == [n \in cs |->
            IF n = keyname THEN group(k)[1][by]
            ELSE Aggregate(src(n)[2], src(n)[1], column(group(k), src(n)[1]), sum_empty)]
    IN  IF by \notin df.cols \/ \E p \in spec : p[1] \notin df.cols
        THEN Raise("KeyError")
        ELSE IF by \in ObjectCols /\ \E i \in DOMAIN df.rows : df.rows[i][by].t = "series"
        THEN Raise("TypeError")
        ELSE Ok(Frame(cs, [i \in DOMAIN keys |-> outrow(keys[i])]))

----------------------------------------------------------------------------
(* The collapsers *)

PhilipsConcat ==
    {<<"ptCensusId", "count">>, <<"ptCensusId", "list">>, <<"age", "min">>,
     <<"inTime", "min">>, <<"outTime", "max">>, <<"tNumber", "first">>,
     <<"encounterId_original", "count">>, <<"encounterId_original", "list">>,
     <<"lengthOfStay (mins)", "sum">>, <<"gender", "last">>,
     <<"error_type", "_get_err">>}
PhilipsSimple ==
    {<<"ptCensusId", "first">>, <<"age", "min">>,
     <<"inTime", "min">>, <<"outTime", "max">>, <<"tNumber", "first">>,
     <<"encounterId_original", "first">>,
     <<"lengthOfStay (mins)", "sum">>, <<"gender", "first">>,
     <<"error_type", "_get_err">>}

combine_non_unique_philips_encounters(merged_data, combine, sum_empty) ==
    IF combine = "concat"
    THEN GroupByAgg(merged_data, "encounterId", PhilipsConcat, TRUE, sum_empty)
    ELSE IF combine = "simple"
    THEN GroupByAgg(merged_data, "encounterId", PhilipsSimple, FALSE, sum_empty)
    ELSE Raise("UnboundLocalError")

EncountersConcat ==
    {<<"ptCensusId", "count">>, <<"ptCensusId", "list">>, <<"age", "min">>,
     <<"inTime", "min">>, <<"outTime", "max">>, <<"tNumber", "first">>,
     <<"encounterId_original", "count">>, <<"encounterId_original", "list">>,
     <<"lengthOfStay (mins)", "sum">>, <<"gender", "first">>,
     <<"Unit ID", "min">>,
     <<"ICNARC number", "count">>, <<"ICNARC number", "list">>,
     <<"CIS Patient ID Original", "count">>, <<"CIS Patient ID Original", "list">>,
     <<"CIS Episode ID", "count">>, <<"CIS Episode ID", "list">>,
     <<"Readmission during this hospital stay", "first">>}
EncountersSimple ==
    {<<"ptCensusId", "first">>, <<"age", "min">>,
     <<"inTime", "min">>, <<"outTime", "max">>, <<"tNumber", "first">>,
     <<"encounterId_original", "first">>,
     <<"lengthOfStay (mins)", "sum">>, <<"gender", "first">>,
     <<"Unit ID", "min">>,
     <<"ICNARC number", "first">>, <<"CIS Patient ID Original", "first">>,
     <<"CIS Episode ID", "first">>,
     <<"Readmission during this hospital stay", "first">>}

combine_non_unique_encounters(merged_data, combine, sum_empty) ==
    IF combine = "concat"
    THEN GroupByAgg(merged_data, "CIS Patient ID", EncountersConcat, TRUE, sum_empty)
    ELSE IF combine = "simple"
    THEN GroupByAgg(merged_data, "CIS Patient ID", EncountersSimple, FALSE, sum_empty)
    ELSE Raise("UnboundLocalError")

----------------------------------------------------------------------------
(* Inputs *)

MaxIcnarcRows == 2
MaxWWErrors == 2
MaxPhilipsRows == 2
MaxIssues == 2

\* the columns of the ICNARC identifier file
IcnarcCols == {"Unit ID", "ICNARC number", "CIS Patient ID", "Key",
               "CIS Episode ID", "Readmission during this hospital stay"}
IcnarcRow(u, n, c) ==
    [k \in IcnarcCols |->
        CASE k = "Unit ID" -> u
          [] k = "ICNARC number" -> n
          [] k = "CIS Patient ID" -> c
          [] k = "Readmission during this hospital stay" -> "No"
          [] OTHER -> 1]
IcnarcRows == {IcnarcRow(u, n, c) : u \in {1, CardiacUnitWW}, n \in {0, 7},
                                    c \in {NaN, 1001}}
IcnarcFiles(n) == {Frame(IcnarcCols, r) : r \in SeqsUpTo(IcnarcRows, n)}

\* sheet 'WW'
WWCols == {"Unit ID", "ICNARC Number", "Corrected encID"}
WWRow(u, n, c) ==
    [k \in WWCols |->
        CASE k = "Unit ID" -> u
          [] k = "ICNARC Number" -> n
          [] OTHER -> c]
WWRows == {WWRow(u, n, c) : u \in {1, CardiacUnitWW}, n \in {0, 7}, c \in {1002}}
WWSheets(n) == {Frame(WWCols, r) : r \in SeqsUpTo(WWRows, n)}

\* the columns of the Philips encounter summary
PhilipsCols == {"encounterId", "ptCensusId", "age", "inTime", "outTime", "tNumber",
                "lengthOfStay (mins)", "gender"}
\* one encounter: <<ptCensusId, age, inTime, outTime, lengthOfStay (mins)>>
Stay == <<10, 55, 1, 2, 20>>
PhilipsRow(e, stay) ==
    [k \in PhilipsCols |->
        CASE k = "encounterId" -> e
          [] k = "ptCensusId" -> stay[1]
          [] k = "age" -> stay[2]
          [] k = "inTime" -> stay[3]
          [] k = "outTime" -> stay[4]
          [] k = "lengthOfStay (mins)" -> stay[5]
          [] k = "tNumber" -> 7
          [] OTHER -> "Male"]
PhilipsRows == {PhilipsRow(e, Stay) : e \in {NaN, 1001, 1002}}
PhilipsExtracts(n) == {Frame(PhilipsCols, r) : r \in SeqsUpTo(PhilipsRows, n)}

\* sheet 'encounterId'
IssueCols == {"encounterId_CIS", "encounterId_Adjusted", "clinicalUnitId", "Explanation"}
IssueRow(k, a, u, x) ==
    [c \in IssueCols |->
        CASE c = "encounterId_CIS" -> k
          [] c = "encounterId_Adjusted" -> a
          [] c = "clinicalUnitId" -> u
          [] OTHER -> x]
IssueRows == {IssueRow(k, a, u, x) : k \in {1001, 1002}, a \in {NaN, 1001},
                                     u \in {1, CardiacUnitPhilips}, x \in {NaNStr, "dup"}}
IssueSheets(n) == {Frame(IssueCols, r) : r \in SeqsUpTo(IssueRows, n)}

NoCall == [fn |-> "", verbose |-> TRUE]

----------------------------------------------------------------------------
(* Calls of the functions *)

\* clean_icnarc_cis_ids(icnarc_cis_id_file, erroneous_ids, verbose)
CallCleanIcnarc ==
    /\ pc = "clean_icnarc_cis_ids"
    /\ \E verbose \in BOOLEAN :
        LET r == clean_icnarc_cis_ids(icnarc_cis_id_file, erroneous_ids)
        IN  /\ icnarc_numbers' = r.df
            /\ err' = r.err
            /\ args' = [fn |-> "clean_icnarc_cis_ids", verbose |-> verbose]
            /\ pc' = IF r.err = "" THEN "returned" ELSE "raised"
    /\ UNCHANGED <<icnarc_cis_id_file, erroneous_ids, philips_extract,
                   encounter_id_issues, data, merged, groups>>

\* clean_philips_encounterids(philips_extract, encounter_id_issues, verbose,
\* log_error_type); the caller goes on to collapse the table it gets
CallCleanPhilips ==
    /\ pc = "clean_philips_encounterids"
    /\ \E verbose \in BOOLEAN, log_error_type \in BOOLEAN :
        LET r == clean_philips_encounterids(philips_extract, encounter_id_issues,
                                            verbose, log_error_type)
        IN  /\ data' = r.df
            /\ err' = r.err
            /\ args' = [fn |-> "clean_philips_encounterids", verbose |-> verbose,
                        log_error_type |-> log_error_type]
            /\ pc' = IF r.err = "" THEN "combine_non_unique_philips_encounters"
                     ELSE "raised"
    /\ UNCHANGED <<icnarc_cis_id_file, erroneous_ids, philips_extract,
                   encounter_id_issues, icnarc_numbers, merged, groups>>

\* combine_non_unique_philips_encounters(data, combine, verbose)
CallCombinePhilips ==
    /\ pc = "combine_non_unique_philips_encounters"
    /\ \E combine \in {"concat", "simple"}, sum_empty \in {0, NaN} :
        LET r == combine_non_unique_philips_encounters(data, combine, sum_empty)
        IN  /\ groups' = r.df
            /\ err' = r.err
            /\ args' = [fn |-> "combine_non_unique_philips_encounters",
                        combine |-> combine, sum_empty |-> sum_empty]
            /\ pc' = IF r.err = "" THEN "returned" ELSE "raised"
    /\ UNCHANGED <<icnarc_cis_id_file, erroneous_ids, philips_extract,
                   encounter_id_issues, icnarc_numbers, data, merged>>

\* combine_non_unique_encounters(merged, combine, verbose)
CallCombineEncounters ==
    /\ pc = "combine_non_unique_encounters"
    /\ \E combine \in {"concat", "simple"}, sum_empty \in {0, NaN} :
        LET r == combine_non_unique_encounters(merged, combine, sum_empty)
        IN  /\ groups' = r.df
            /\ err' = r.err
            /\ args' = [fn |-> "combine_non_unique_encounters",
                        combine |-> combine, sum_empty |-> sum_empty]
            /\ pc' = IF r.err = "" THEN "returned" ELSE "raised"
    /\ UNCHANGED <<icnarc_cis_id_file, erroneous_ids, philips_extract,
                   encounter_id_issues, icnarc_numbers, data, merged>>

\* join_icnarc_to_philips(data, icnarc_numbers, verbose)
CallJoin ==
    /\ pc = "join_icnarc_to_philips"
    /\ \E verbose \in BOOLEAN :
        LET r == join_icnarc_to_philips(data, icnarc_numbers)
        IN  /\ merged' = r.df
            /\ icnarc_numbers' = r.icnarc
            /\ err' = r.err
            /\ args' = [fn |-> "join_icnarc_to_philips", verbose |-> verbose]
            /\ pc' = IF r.err = "" THEN "returned" ELSE "raised"
    /\ UNCHANGED <<icnarc_cis_id_file, erroneous_ids, philips_extract,
                   encounter_id_issues, data, groups>>

----------------------------------------------------------------------------
(* The registry-side corrector on its own *)

InitIcnarc ==
    /\ icnarc_cis_id_file \in IcnarcFiles(MaxIcnarcRows)
    /\ erroneous_ids \in WWSheets(MaxWWErrors)
    /\ philips_extract = EmptyFrame
    /\ encounter_id_issues = EmptyFrame
    /\ icnarc_numbers = EmptyFrame
    /\ data = EmptyFrame
    /\ merged = EmptyFrame
    /\ groups = EmptyFrame
    /\ pc = "clean_icnarc_cis_ids"
    /\ err = ""
    /\ args = NoCall

NextIcnarc == CallCleanIcnarc
SpecIcnarc == InitIcnarc /\ [][NextIcnarc]_vars

----------------------------------------------------------------------------
(* The monitoring-side corrector and the collapser of its table *)

InitPhilips ==
    /\ icnarc_cis_id_file = EmptyFrame
    /\ erroneous_ids = EmptyFrame
    /\ philips_extract \in PhilipsExtracts(MaxPhilipsRows)
    /\ encounter_id_issues \in IssueSheets(MaxIssues)
    /\ icnarc_numbers = EmptyFrame
    /\ data = EmptyFrame
    /\ merged = EmptyFrame
    /\ groups = EmptyFrame
    /\ pc = "clean_philips_encounterids"
    /\ err = ""
    /\ args = NoCall

NextPhilips == CallCleanPhilips \/ CallCombinePhilips
SpecPhilips == InitPhilips /\ [][NextPhilips]_vars

----------------------------------------------------------------------------
(* Properties of the correctors *)

\* known_errors of clean_icnarc_cis_ids: sheet 'WW' without the cardiac unit
KnownWW == Keep(erroneous_ids, KeptPositions(erroneous_ids, "Unit ID", CardiacUnitWW))
IcnarcReturned == pc = "returned" /\ args.fn = "clean_icnarc_cis_ids"

\* C1: correction always wins in clean_icnarc_cis_ids: a returned row whose
\* 'ICNARC number' is the 'ICNARC Number' of an entry of the unit-filtered
\* correction table has that entry's 'Corrected encID', as a scalar, for its
\* 'CIS Patient ID'.
C1_CorrectionWins ==
    IcnarcReturned =>
        \A i \in DOMAIN icnarc_numbers.rows : \A j \in DOMAIN KnownWW.rows :
            KnownWW.rows[j]["ICNARC Number"] = icnarc_numbers.rows[i]["ICNARC number"]
            => icnarc_numbers.rows[i]["CIS Patient ID"]
                   = Scalar(KnownWW.rows[j]["Corrected encID"])

\* C2: pass-through law in clean_icnarc_cis_ids: every source row outside the
\* cardiac unit gives exactly one returned row, and a returned row whose
\* 'ICNARC number' is no 'ICNARC Number' of the unit-filtered correction table
\* keeps its raw 'CIS Patient ID Original' as its 'CIS Patient ID'.
C2_PassThrough ==
    IcnarcReturned =>
        /\ Len(icnarc_numbers.rows)
             = Cardinality(KeptPositions(icnarc_cis_id_file, "Unit ID", CardiacUnitWW))
        /\ \A i \in DOMAIN icnarc_numbers.rows :
            (\A j \in DOMAIN KnownWW.rows :
                KnownWW.rows[j]["ICNARC Number"] # icnarc_numbers.rows[i]["ICNARC number"])
            => icnarc_numbers.rows[i]["CIS Patient ID"]
                   = Scalar(icnarc_numbers.rows[i]["CIS Patient ID Original"])

\* C3: the corrector does not abort, and every row of the table it returns has
\* a corrected identifier that is an integer and not null.
C3_NeverNull ==
    /\ pc # "raised"
    /\ IcnarcReturned =>
        \A i \in DOMAIN icnarc_numbers.rows :
            /\ icnarc_numbers.rows[i]["CIS Patient ID"].t = "scalar"
            /\ icnarc_numbers.rows[i]["CIS Patient ID"].v # NaN

\* an encounterId the issue list gives to the cardiac unit and to no other
CardiacEncounter(k) ==
    /\ \E j \in DOMAIN encounter_id_issues.rows :
        /\ encounter_id_issues.rows[j]["encounterId_CIS"] = k
        /\ encounter_id_issues.rows[j]["clinicalUnitId"] = CardiacUnitPhilips
    /\ \A j \in DOMAIN encounter_id_issues.rows :
        encounter_id_issues.rows[j]["encounterId_CIS"] = k
        => encounter_id_issues.rows[j]["clinicalUnitId"] = CardiacUnitPhilips

\* C4: unit exclusion: no row of the cardiac unit (clinicalUnitId 8) is in the
\* table clean_philips_encounterids returns.
C4_UnitExcluded ==
    \A i \in DOMAIN data.rows : ~ CardiacEncounter(data.rows[i]["encounterId_original"])

\* The registry side of C4: no returned row is of the cardiac unit (Unit ID 14).
IcnarcUnitExcluded ==
    \A i \in DOMAIN icnarc_numbers.rows : icnarc_numbers.rows[i]["Unit ID"] # CardiacUnitWW

\* known_errors of clean_philips_encounterids: the sheet without the cardiac unit
KnownIssues ==
    Keep(encounter_id_issues,
         KeptPositions(encounter_id_issues, "clinicalUnitId", CardiacUnitPhilips))
Unlisted(k) ==
    \A j \in DOMAIN KnownIssues.rows : KnownIssues.rows[j]["encounterId_CIS"] # k

\* The monitoring side of C2: a row of the extract whose encounterId is no key
\* of the unit-filtered issue list gives exactly one returned row, with the raw
\* encounterId as its identifier.
PhilipsPassThrough ==
    (args.fn = "clean_philips_encounterids" /\ err = "") =>
        /\ \A i \in DOMAIN data.rows :
            Unlisted(data.rows[i]["encounterId_original"])
            => data.rows[i]["encounterId"] = data.rows[i]["encounterId_original"]
        /\ Cardinality({i \in DOMAIN data.rows : Unlisted(data.rows[i]["encounterId_original"])})
             = Cardinality({i \in DOMAIN philips_extract.rows :
                               Unlisted(philips_extract.rows[i]["encounterId"])})

\* The monitoring side of C3: the corrector raises ValueError exactly when a row
\* is left without identifier, and every identifier it returns is not null.
PhilipsAbortsOnNull ==
    (args.fn = "clean_philips_encounterids" /\ ~ args.verbose) =>
        /\ err \in {"", "ValueError"}
        /\ err = "" => \A i \in DOMAIN data.rows : data.rows[i]["encounterId"] # NaN
        /\ err = "ValueError" =>
            \E i \in DOMAIN philips_extract.rows :
                philips_extract.rows[i]["encounterId"] = NaN

\* the error_type values of the rows of data with encounterId k, in order
ErrorsOf(k) ==
    LET g == SelectSeq(data.rows, LAMBDA r : r["encounterId"] = k)
    IN  [j \in DOMAIN g |-> g[j]["error_type"]]
FirstError(xs) == xs[Min({j \in DOMAIN xs : xs[j] # "NA"})]
ErrorColumn == IF args.combine = "concat" THEN "error_type__get_err" ELSE "error_type"
KeyColumn == IF args.combine = "concat" THEN "encounterId_" ELSE "encounterId"

\* C7: error-type reduction: on every table clean_philips_encounterids returns
\* (log_error_type set or left at its default), the collapser returns, and the
\* error_type of a collapsed row is 'NA' if and only if every row of its group
\* has 'NA', and otherwise the first value in the group that is not 'NA'.
C7_ErrorReduction ==
    args.fn = "combine_non_unique_philips_encounters" =>
        /\ err = ""
        /\ \A i \in DOMAIN groups.rows :
            LET xs == ErrorsOf(groups.rows[i][KeyColumn])
            IN  groups.rows[i][ErrorColumn]
                  = IF \A j \in DOMAIN xs : xs[j] = "NA" THEN "NA" ELSE FirstError(xs)

\* The reduction of C7 on the tables returned with log_error_type=True.
ErrorReductionWhenLogged ==
    (args.fn = "combine_non_unique_philips_encounters" /\ "error_type" \in data.cols) =>
        /\ err = ""
        /\ \A i \in DOMAIN groups.rows :
            LET xs == ErrorsOf(groups.rows[i][KeyColumn])
            IN  groups.rows[i][ErrorColumn]
                  = IF \A j \in DOMAIN xs : xs[j] = "NA" THEN "NA" ELSE FirstError(xs)

----------------------------------------------------------------------------
(* The joiner on the tables the correctors return *)

MaxJoinRows == 2
MaxJoinErrors == 1

\* what clean_icnarc_cis_ids returns on the small inputs
CorrectedIcnarc ==
    {clean_icnarc_cis_ids(f, s).df :
        f \in IcnarcFiles(MaxJoinRows), s \in WWSheets(MaxJoinErrors)}
\* what clean_philips_encounterids returns on the small inputs, when it returns
CorrectedPhilips ==
    {r.df : r \in {q \in {clean_philips_encounterids(f, s, FALSE, l) :
                            f \in PhilipsExtracts(MaxJoinRows),
                            s \in IssueSheets(MaxJoinErrors), l \in BOOLEAN} :
                   q.err = ""}}

InitJoin ==
    /\ icnarc_cis_id_file = EmptyFrame
    /\ erroneous_ids = EmptyFrame
    /\ philips_extract = EmptyFrame
    /\ encounter_id_issues = EmptyFrame
    /\ icnarc_numbers \in CorrectedIcnarc
    /\ data \in CorrectedPhilips
    /\ merged = EmptyFrame
    /\ groups = EmptyFrame
    /\ pc = "join_icnarc_to_philips"
    /\ err = ""
    /\ args = NoCall

NextJoin == CallJoin
SpecJoin == InitJoin /\ [][NextJoin]_vars

JoinReturned == pc = "returned" /\ args.fn = "join_icnarc_to_philips"

\* rows of either input with identifier k
PhilipsWith(k) == {i \in DOMAIN data.rows : data.rows[i]["encounterId"] = k}
IcnarcWith(k) ==
    {j \in DOMAIN icnarc_numbers.rows :
        icnarc_numbers.rows[j]["CIS Patient ID"] = Scalar(k)}
JoinIds == {data.rows[i]["encounterId"] : i \in DOMAIN data.rows}
\* rows of either input whose identifier has a match on the other side
MatchedPhilips ==
    {i \in DOMAIN data.rows : IcnarcWith(data.rows[i]["encounterId"]) # {}}
MatchedIcnarc == UNION {IcnarcWith(k) : k \in {n \in JoinIds : n # NaN}}

RECURSIVE PairCount(_)
PairCount(ids) ==
    IF ids = {} THEN 0
    ELSE LET k == CHOOSE x \in ids : TRUE
         IN  Cardinality(PhilipsWith(k)) * Cardinality(IcnarcWith(k))
               + PairCount(ids \ {k})

IdsInBothInputs ==
    \A i \in DOMAIN merged.rows :
        /\ PhilipsWith(merged.rows[i]["encounterId"]) # {}
        /\ IcnarcWith(merged.rows[i]["encounterId"]) # {}

\* C5 as claimed: every identifier of the joined table is in both inputs and
\* the joined table has at most min(matched Philips rows, matched ICNARC rows)
\* rows.
C5_AtMostMinMatched ==
    JoinReturned =>
        /\ IdsInBothInputs
        /\ Len(merged.rows) <= Cardinality(MatchedPhilips)
        /\ Len(merged.rows) <= Cardinality(MatchedIcnarc)

\* C5 amended: every identifier of the joined table is in both inputs and the
\* joined table has one row per pair of a Philips row and an ICNARC row with the
\* same identifier: at most matched Philips rows times matched ICNARC rows.
C5_InnerJoin ==
    JoinReturned =>
        /\ IdsInBothInputs
        /\ Len(merged.rows) = PairCount(JoinIds)
        /\ Len(merged.rows) <= Cardinality(MatchedPhilips) * Cardinality(MatchedIcnarc)

\* an identifier on several rows of both inputs: more joined rows than either
\* side has matched rows
C5_Witness ==
    /\ JoinReturned
    /\ Len(merged.rows) > Cardinality(MatchedPhilips)
    /\ Len(merged.rows) > Cardinality(MatchedIcnarc)

\* The joined table has no 'CIS Patient ID' column, the grouping key of
\* combine_non_unique_encounters, which raises KeyError on it.
JoinDropsGroupingKey ==
    JoinReturned =>
        /\ "CIS Patient ID" \notin merged.cols
        /\ combine_non_unique_encounters(merged, "concat", 0).err = "KeyError"
        /\ validation(icnarc_numbers, data, merged) = "KeyError"

----------------------------------------------------------------------------
(* The collapsers on tables of encounters *)

MaxStayRows == 3

\* <<ptCensusId, age, inTime, outTime, lengthOfStay (mins), error_type>>
Stays == {<<10, 55, 1, 2, 20, "NA">>, <<11, 57, 3, 5, 40, "dup">>,
          <<NaN, 56, 2, 4, NaN, "NA">>}

\* a row of the table clean_philips_encounterids returns with log_error_type=True
CorrectedCols == (PhilipsCols \cup {"encounterId_original", "error_type"})
CorrectedRow(k, stay) ==
    [c \in CorrectedCols |->
        CASE c = "encounterId" -> k
          [] c = "encounterId_original" -> IF stay[6] = "NA" THEN k ELSE 1003
          [] c = "error_type" -> stay[6]
          [] OTHER -> PhilipsRow(k, stay)[c]]
CorrectedRows == {CorrectedRow(k, stay) : k \in {1001, 1002}, stay \in Stays}

\* a row of a table joined to the ICNARC identifiers that kept 'CIS Patient ID'
LinkedCols == ((CorrectedCols \ {"encounterId", "error_type"}) \cup IcnarcCols
                 \cup {"CIS Patient ID Original"}) \ {"Key"}
LinkedRow(k, stay) ==
    [c \in LinkedCols |->
        CASE c = "CIS Patient ID" -> Scalar(k)
          [] c = "CIS Patient ID Original" -> k
          [] c = "encounterId_original" -> IF stay[6] = "NA" THEN k ELSE 1003
          [] c \in PhilipsCols -> PhilipsRow(k, stay)[c]
          [] OTHER -> IcnarcRow(1, 7, k)[c]]
LinkedRows == {LinkedRow(k, stay) : k \in {NaN, 1001, 1002}, stay \in Stays}

InitCollapse ==
    /\ icnarc_cis_id_file = EmptyFrame
    /\ erroneous_ids = EmptyFrame
    /\ philips_extract = EmptyFrame
    /\ encounter_id_issues = EmptyFrame
    /\ icnarc_numbers = EmptyFrame
    /\ groups = EmptyFrame
    /\ err = ""
    /\ args = NoCall
    /\ \/ /\ pc = "combine_non_unique_philips_encounters"
          /\ data \in {Frame(CorrectedCols, r) : r \in SeqsUpTo(CorrectedRows, MaxStayRows)}
          /\ merged = EmptyFrame
       \/ /\ pc = "combine_non_unique_encounters"
          /\ merged \in {Frame(LinkedCols, r) : r \in SeqsUpTo(LinkedRows, MaxStayRows)}
          /\ data = EmptyFrame

NextCollapse == CallCombinePhilips \/ CallCombineEncounters
SpecCollapse == InitCollapse /\ [][NextCollapse]_vars

CollapseReturned ==
    /\ pc = "returned"
    /\ args.fn \in {"combine_non_unique_philips_encounters", "combine_non_unique_encounters"}
\* the table that was collapsed, its grouping key and the key's output column
Collapsed == IF args.fn = "combine_non_unique_encounters" THEN merged ELSE data
GroupedBy == IF args.fn = "combine_non_unique_encounters" THEN "CIS Patient ID"
             ELSE "encounterId"
Flat(c) == IF args.combine = "concat" THEN c \o "_" ELSE c

\* C6: a collapser returns exactly one row per distinct non-null value of the
\* grouping key of its input: no key twice, no key missing, no other key.
C6_OneRowPerKey ==
    CollapseReturned =>
        /\ \A i, j \in DOMAIN groups.rows :
            groups.rows[i][Flat(GroupedBy)] = groups.rows[j][Flat(GroupedBy)] => i = j
        /\ {groups.rows[i][Flat(GroupedBy)] : i \in DOMAIN groups.rows}
             = {Collapsed.rows[i][GroupedBy] : i \in
                    {n \in DOMAIN Collapsed.rows :
                        ~ IsNull(GroupedBy, Collapsed.rows[n][GroupedBy])}}

\* a key on two rows and a row without key were collapsed
C6_Witness ==
    /\ CollapseReturned
    /\ \E i, j \in DOMAIN Collapsed.rows :
        /\ i # j
        /\ Collapsed.rows[i][GroupedBy] = Collapsed.rows[j][GroupedBy]
        /\ ~ IsNull(GroupedBy, Collapsed.rows[i][GroupedBy])
    /\ \E i \in DOMAIN Collapsed.rows : IsNull(GroupedBy, Collapsed.rows[i][GroupedBy])
    /\ Len(groups.rows) = 1

\* the rows of data with encounterId k, in order
FragmentsOf(k) == SelectSeq(data.rows, LAMBDA r : r["encounterId"] = k)
ColumnOf(rows, c) == [j \in DOMAIN rows |-> rows[j][c]]
AllPresent(rows, c) == \A j \in DOMAIN rows : ~ IsNull(c, rows[j][c])

\* C8: 'concat' mode of combine_non_unique_philips_encounters: the row of
\* identifier k has, for ptCensusId and encounterId_original, the list of the
\* group's values and a count that is the number of rows of the group (the
\* length of the list); its duration is the sum, its age and inTime the minimum
\* and its outTime the maximum of the group's values.
C8_ConcatRow ==
    (CollapseReturned /\ args.fn = "combine_non_unique_philips_encounters"
       /\ args.combine = "concat") =>
        \A i \in DOMAIN groups.rows :
            LET g == FragmentsOf(groups.rows[i]["encounterId_"])
                out == groups.rows[i]
            IN  /\ out["ptCensusId_list"] = ColumnOf(g, "ptCensusId")
                /\ out["ptCensusId_count"] = Len(g)
                /\ out["ptCensusId_count"] = Len(out["ptCensusId_list"])
                /\ out["encounterId_original_list"] = ColumnOf(g, "encounterId_original")
                /\ out["encounterId_original_count"] = Len(g)
                /\ AllPresent(g, "lengthOfStay (mins)") =>
                     out["lengthOfStay (mins)_sum"] = SumSeq(ColumnOf(g, "lengthOfStay (mins)"))
                /\ AllPresent(g, "age") => out["age_min"] = Min(Range(ColumnOf(g, "age")))
                /\ AllPresent(g, "inTime") => out["inTime_min"] = Min(Range(ColumnOf(g, "inTime")))
                /\ AllPresent(g, "outTime") => out["outTime_max"] = Max(Range(ColumnOf(g, "outTime")))

\* the values of a column of a group that are not missing
Present(rows, c) == SelectSeq(ColumnOf(rows, c), LAMBDA v : ~ IsNull(c, v))

\* What 'concat' mode does return: C8 with each count the number of values of
\* the group that are not missing (the length of the list when none is).
ConcatRowCountsPresent ==
    (CollapseReturned /\ args.fn = "combine_non_unique_philips_encounters"
       /\ args.combine = "concat") =>
        \A i \in DOMAIN groups.rows :
            LET g == FragmentsOf(groups.rows[i]["encounterId_"])
                out == groups.rows[i]
            IN  /\ out["ptCensusId_list"] = ColumnOf(g, "ptCensusId")
                /\ out["ptCensusId_count"] = Len(Present(g, "ptCensusId"))
                /\ out["encounterId_original_list"] = ColumnOf(g, "encounterId_original")
                /\ out["encounterId_original_count"] = Len(Present(g, "encounterId_original"))
                /\ AllPresent(g, "lengthOfStay (mins)") =>
                     out["lengthOfStay (mins)_sum"] = SumSeq(ColumnOf(g, "lengthOfStay (mins)"))
                /\ AllPresent(g, "age") => out["age_min"] = Min(Range(ColumnOf(g, "age")))
                /\ AllPresent(g, "inTime") => out["inTime_min"] = Min(Range(ColumnOf(g, "inTime")))
                /\ AllPresent(g, "outTime") => out["outTime_max"] = Max(Range(ColumnOf(g, "outTime")))

\* the keys of a table are unique
UniqueKeys(df, by) ==
    \A i, j \in DOMAIN df.rows : df.rows[i][by] = df.rows[j][by] => i = j

\* C9: 'simple' mode is the identity on a table whose grouping keys are unique:
\* the collapsed table has the rows of the input, row for row, each with the
\* input's value in every aggregated field.
C9_SimpleIdentity ==
    (CollapseReturned /\ args.combine = "simple" /\ UniqueKeys(Collapsed, GroupedBy)) =>
        /\ Len(groups.rows) = Len(Collapsed.rows)
        /\ \A i \in DOMAIN groups.rows : \A c \in groups.cols :
            groups.rows[i][c] = Collapsed.rows[i][c]

\* The same with the rows taken as a set: the order of the rows apart.
C9_SimpleIdentityUnordered ==
    (CollapseReturned /\ args.combine = "simple" /\ UniqueKeys(Collapsed, GroupedBy)) =>
        {groups.rows[i] : i \in DOMAIN groups.rows}
          = {[c \in groups.cols |-> Collapsed.rows[i][c]] : i \in DOMAIN Collapsed.rows}

\* Collapsing the table a 'simple' collapse returned once more, in 'simple'
\* mode, returns that table.
SimpleCollapseTwice ==
    (CollapseReturned /\ args.combine = "simple") =>
        IF args.fn = "combine_non_unique_encounters"
        THEN combine_non_unique_encounters(groups, "simple", args.sum_empty) = Ok(groups)
        ELSE combine_non_unique_philips_encounters(groups, "simple", args.sum_empty)
               = Ok(groups)

----------------------------------------------------------------------------
(* The script's main block, lines 293 to 303 *)

MaxMainRows == 1

\* columns the Philips file may have beside the ones the functions read
ExtraCols == {"encounterId_original", "CIS Patient ID"}
WithExtra(frame, extra) ==
    Frame(frame.cols \cup extra,
          [i \in DOMAIN frame.rows |->
             [c \in frame.cols \cup extra |->
                IF c \in frame.cols THEN frame.rows[i][c]
                ELSE IF c \in ObjectCols THEN Scalar(1001) ELSE 1001]])

InitMain ==
    /\ icnarc_cis_id_file \in IcnarcFiles(MaxMainRows)
    /\ erroneous_ids \in WWSheets(MaxMainRows)
    /\ philips_extract \in {WithExtra(f, x) : f \in PhilipsExtracts(MaxMainRows),
                                              x \in SUBSET ExtraCols}
    /\ encounter_id_issues \in IssueSheets(MaxMainRows)
    /\ icnarc_numbers = EmptyFrame
    /\ data = EmptyFrame
    /\ merged = EmptyFrame
    /\ groups = EmptyFrame
    /\ pc = "line 295"
    /\ err = ""
    /\ args = NoCall

MainLines == <<"line 295", "line 297", "line 299", "line 301", "line 303", "done">>
After(line) == MainLines[1 + CHOOSE n \in 1..5 : MainLines[n] = line]

\* the statement at a line of the main block, every keyword argument at its
\* default: the new values of the script's variables, and the exception
Statement(line) ==
    LET keep == [icnarc_numbers |-> icnarc_numbers, data |-> data,
                 merged |-> merged, groups |-> groups, err |-> ""]
    IN  CASE line = "line 295" ->
               LET r == clean_icnarc_cis_ids(icnarc_cis_id_file, erroneous_ids)
               IN  [keep EXCEPT !.icnarc_numbers = r.df, !.err = r.err]
          [] line = "line 297" ->
               LET r == clean_philips_encounterids(philips_extract, encounter_id_issues,
                                                   TRUE, FALSE)
               IN  [keep EXCEPT !.data = r.df, !.err = r.err]
          [] line = "line 299" ->
               LET r == join_icnarc_to_philips(data, icnarc_numbers)
               IN  [keep EXCEPT !.merged = r.df, !.icnarc_numbers = r.icnarc, !.err = r.err]
          [] line = "line 301" ->
               [keep EXCEPT !.err = validation(icnarc_numbers, data, merged)]
          [] line = "line 303" ->
               LET r == combine_non_unique_encounters(merged, "concat", 0)
               IN  [keep EXCEPT !.groups = r.df, !.err = r.err]

\* the main block runs its next statement; an exception ends the run
MainStep ==
    /\ pc \in Range(MainLines) \ {"done"}
    /\ \E r \in {Statement(pc)} :
           /\ icnarc_numbers' = r.icnarc_numbers
           /\ data' = r.data
           /\ merged' = r.merged
           /\ groups' = r.groups
           /\ err' = r.err
           /\ pc' = IF r.err = "" THEN After(pc) ELSE "raised"
    /\ UNCHANGED <<icnarc_cis_id_file, erroneous_ids, philips_extract,
                   encounter_id_issues, args>>

NextMain == MainStep
SpecMain == InitMain /\ [][NextMain]_vars

\* C10: stage-to-stage schema compatibility: run in the order of the main block
\* with default arguments, every stage finds the columns it reads in the tables
\* of the stages before it, so that no statement of the run raises.
C10_SchemaCompatible == pc # "raised"

\* The run ends at line 297, whatever the files hold: lines 299 to 303 never run.
MainEndsAtLine297 ==
    /\ pc \in {"line 295", "line 297", "raised"}
    /\ pc = "raised" => err \in {"KeyError", "TypeError"}

====
